---- MODULE Spec2Model ----
(***************************************************************************)
(* Model of rag_api.py: the FastAPI service with GET /health and           *)
(* POST /query and the module-level `stats` dictionary they share.         *)
(*                                                                         *)
(* Both endpoints are plain `def` functions, so the framework runs them    *)
(* on worker threads: several handlers are in flight at once and each      *)
(* `stats[k] += v` is a load of the entry followed by a store, with no     *)
(* lock around it.  Every load and every store of `stats` is therefore     *)
(* one step of the model.                                                  *)
(*                                                                         *)
(* Latencies are whole milliseconds, scores are tenths (0.9 - i*0.1 is     *)
(* 9 - i), a query string is a sequence of characters, and the quotient    *)
(* avg_latency_ms is an exact fraction <<numerator, denominator>>.         *)
(***************************************************************************)
EXTENDS Integers, Sequences, FiniteSets, Bags

\* ---------------------------------------------------------------- bounds
NumWorkers == 2
MaxRequests == 3
MaxLatency == 1
MaxQueryLen == 2

\* ------------------------------------------------- constants of the code
\* Field(..., min_length=1, max_length=500)
MinLength == 1
MaxLength == 500
\* Field(10, ge=1, le=100)
TopKMin == 1
TopKMax == 100

Workers == 1..NumWorkers
Latencies == 0..MaxLatency

\* the characters a query is made of: a blank and a letter
Chars == {" ", "a"}

RECURSIVE StringsUpTo(_)
StringsUpTo(n) ==
    IF n = 0 THEN {<<>>}
    ELSE LET shorter == StringsUpTo(n - 1)
         IN  shorter \cup {Append(s, c) : s \in {t \in shorter : Len(t) = n - 1}, c \in Chars}

\* the method strings a client may send; "fuzzy" is none of the three
Methods == {"sparse", "dense", "hybrid", "fuzzy"}

\* requests of the single-request specification: every field over its range
\* and one value past each end of it
AllRequests ==
    [query : StringsUpTo(MaxQueryLen),
     top_k : (TopKMin - 1)..(TopKMax + 1),
     method : Methods]

\* requests of the concurrent specification
ConcurrentRequests ==
    [query : {<<"a">>}, top_k : {TopKMin}, method : {"hybrid", "fuzzy"}]

NoRequest == [query |-> <<>>, top_k |-> 0, method |-> ""]

VARIABLES
    stats,        \* the module-level dictionary: total_queries, total_latency_ms
    pc,           \* pc[w]: where worker w is in query_endpoint
    request,      \* request[w]: the QueryRequest worker w is handling
    documents,    \* documents[w]: the local list built by the comprehension
    latency,      \* latency[w]: the local `latency`
    loaded,       \* loaded[w]: the value of stats[k] loaded by `+=`, not yet stored
    started,      \* number of requests received so far, of both endpoints
    responses,    \* the bag of what POST /query has returned
    hpc,          \* where the health_check thread is
    hframe,       \* the values health_check has read and computed
    hresponses    \* what GET /health has returned

vars == <<stats, pc, request, documents, latency, loaded, started, responses,
          hpc, hframe, hresponses>>

qvars == <<pc, request, documents, latency, loaded, responses>>
hvars == <<hpc, hframe, hresponses>>

\* ------------------------------------------------------ request validation
\* pydantic: query: str = Field(..., min_length=1, max_length=500)
ValidQuery(q) == Len(q) >= MinLength /\ Len(q) <= MaxLength

\* pydantic: top_k: int = Field(10, ge=1, le=100)
ValidTopK(k) == k >= TopKMin /\ k <= TopKMax

\* the body passes QueryRequest's validation; method is any str
ValidRequest(r) == ValidQuery(r.query) /\ ValidTopK(r.top_k)

\* the method check left out: every method string passes
ValidMethodUnchecked(m) == m = m

\* request.method in ["sparse", "dense", "hybrid"]
ValidMethod(m) == m \in {"sparse", "dense", "hybrid"}

\* ------------------------------------------------------------- documents
\* score=0.9 - i*0.1, in tenths
DocScore(i) == 9 - i

\* rank=i in place of rank=i+1: ranks counted from 0
DocRankZeroBased(i) == i

\* rank=i+1
DocRank(i) == i + 1

\* range(request.top_k + 1): one document too many
DocRangeInclusive(k) == 0..k

\* range(request.top_k)
DocRange(k) == 0..(k - 1)

\* [Document(doc_id=f"doc{i}", ..., score=..., rank=...) for i in range(top_k)]
BuildDocuments(k) ==
    [j \in 1..Cardinality(DocRange(k)) |->
        [doc_id |-> j - 1, score |-> DocScore(j - 1), rank |-> DocRank(j - 1)]]

\* ------------------------------------------------------------ exceptions
\* raise HTTPException(status_code=400, detail="Invalid method. Use: ...")
InvalidMethodError ==
    [cls |-> "HTTPException", status |-> 400, detail |-> "Invalid method"]

\* whatever a call of the try body raises
CallError == [cls |-> "Exception", status |-> 500, detail |-> "error"]

\* the classes `except Exception` catches: HTTPException is one of them
ExceptionClasses == {"Exception", "HTTPException"}

\* except Exception as e:
\*     raise HTTPException(status_code=500, detail=f"Internal server error: {str(e)}")
\* an exception the clause does not catch would leave as it is
ExceptClause(e) ==
    IF e.cls \in ExceptionClasses
    THEN [cls |-> "HTTPException", status |-> 500, detail |-> "Internal server error"]
    ELSE e

\* the framework's answer to a request whose body does not fit QueryRequest
ValidationError(r) ==
    [request |-> r, status |-> 422, detail |-> "validation error",
     documents |-> <<>>, latency_ms |-> 0]

\* the answer to an HTTPException that leaves the handler
ErrorResponse(r, e) ==
    [request |-> r, status |-> e.status, detail |-> e.detail,
     documents |-> <<>>, latency_ms |-> 0]

\* QueryResponse(query=..., documents=documents, method=..., latency_ms=latency, ...)
QueryResponse(r, docs, lat) ==
    [request |-> r, status |-> 200, detail |-> "",
     documents |-> docs, latency_ms |-> lat]

\* ---------------------------------------------------------------- health
GCD(a, b) ==
    IF a = 0 THEN b
    ELSE IF b = 0 THEN a
    ELSE CHOOSE d \in 1..a : a % d = 0 /\ b % d = 0 /\
                             \A e \in 1..a : (a % e = 0 /\ b % e = 0) => e <= d

\* a / b for b # 0, as a fraction in lowest terms
Quotient(a, b) == LET g == GCD(a, b) IN <<a \div g, b \div g>>

Zero == <<0, 1>>

\* the guard written >= 0 in place of > 0
HasQueriesOrNone(n) == n >= 0

\* stats["total_queries"] > 0
HasQueries(n) == n > 0

NoFrame == [cond |-> 0, total |-> 0, divisor |-> 0, avg |-> Zero]

Init ==
    /\ stats = [total_queries |-> 0, total_latency_ms |-> 0]
    /\ pc = [w \in Workers |-> "idle"]
    /\ request = [w \in Workers |-> NoRequest]
    /\ documents = [w \in Workers |-> <<>>]
    /\ latency = [w \in Workers |-> 0]
    /\ loaded = [w \in Workers |-> 0]
    /\ started = 0
    /\ responses = EmptyBag
    /\ hpc = "idle"
    /\ hframe = NoFrame
    /\ hresponses = <<>>

\* ------------------------------------------------------------ POST /query
\* the handler is left: its locals are gone and the worker is free again
Return(w, resp) ==
    /\ responses' = responses (+) SetToBag({resp})
    /\ pc' = [pc EXCEPT ![w] = "idle"]
    /\ request' = [request EXCEPT ![w] = NoRequest]
    /\ documents' = [documents EXCEPT ![w] = <<>>]
    /\ latency' = [latency EXCEPT ![w] = 0]
    /\ loaded' = [loaded EXCEPT ![w] = 0]

\* a request arrives; the framework validates the body against QueryRequest
\* and answers 422 without calling the handler when it does not fit
Receive(w, r, cap) ==
    /\ pc[w] = "idle"
    /\ started < cap
    /\ started' = started + 1
    /\ IF ValidRequest(r)
       THEN /\ pc' = [pc EXCEPT ![w] = "try"]
            /\ request' = [request EXCEPT ![w] = r]
            /\ UNCHANGED <<documents, latency, loaded, responses>>
       ELSE /\ responses' = responses (+) SetToBag({ValidationError(r)})
            /\ UNCHANGED <<pc, request, documents, latency, loaded>>
    /\ UNCHANGED <<stats, hvars>>

\* the try body down to the statistics: the method check, whose
\* raise HTTPException(status_code=400, ...) is inside the try and so goes to
\* the except clause, then documents = [...], answer = ... and
\* latency = (time.time() - start_time) * 1000
TryBody(w) ==
    /\ pc[w] = "try"
    /\ IF ValidMethod(request[w].method)
       THEN /\ \E l \in Latencies :
                  latency' = [latency EXCEPT ![w] = l]
            /\ documents' = [documents EXCEPT ![w] = BuildDocuments(request[w].top_k)]
            /\ pc' = [pc EXCEPT ![w] = "load_queries"]
            /\ UNCHANGED <<request, loaded, responses>>
       ELSE Return(w, ErrorResponse(request[w], ExceptClause(InvalidMethodError)))
    /\ UNCHANGED <<stats, started, hvars>>

\* stats["total_queries"] += 1, the load
LoadQueries(w) ==
    /\ pc[w] = "load_queries"
    /\ loaded' = [loaded EXCEPT ![w] = stats.total_queries]
    /\ pc' = [pc EXCEPT ![w] = "store_queries"]
    /\ UNCHANGED <<stats, request, documents, latency, started, responses, hvars>>

\* stats["total_queries"] += 1, the store
StoreQueries(w) ==
    /\ pc[w] = "store_queries"
    /\ stats' = [stats EXCEPT !.total_queries = loaded[w] + 1]
    /\ loaded' = [loaded EXCEPT ![w] = 0]
    /\ pc' = [pc EXCEPT ![w] = "load_latency"]
    /\ UNCHANGED <<request, documents, latency, started, responses, hvars>>

\* stats["total_latency_ms"] += latency, the load
LoadLatency(w) ==
    /\ pc[w] = "load_latency"
    /\ loaded' = [loaded EXCEPT ![w] = stats.total_latency_ms]
    /\ pc' = [pc EXCEPT ![w] = "store_latency"]
    /\ UNCHANGED <<stats, request, documents, latency, started, responses, hvars>>

\* stats["total_latency_ms"] += latency, the store
StoreLatency(w) ==
    /\ pc[w] = "store_latency"
    /\ stats' = [stats EXCEPT !.total_latency_ms = loaded[w] + latency[w]]
    /\ loaded' = [loaded EXCEPT ![w] = 0]
    /\ pc' = [pc EXCEPT ![w] = "respond"]
    /\ UNCHANGED <<request, documents, latency, started, responses, hvars>>

\* return QueryResponse(...)
Respond(w) ==
    /\ pc[w] = "respond"
    /\ Return(w, QueryResponse(request[w], documents[w], latency[w]))
    /\ UNCHANGED <<stats, started, hvars>>

\* the calls of the try body can raise: Document(...) and time.time() before
\* the statistics are touched (they are reached once the method has passed),
\* QueryResponse(...) and datetime.now() after; whatever they raise goes to
\* the except clause
CanRaise(w) ==
    \/ pc[w] = "try" /\ ValidMethod(request[w].method)
    \/ pc[w] = "respond"

Raise(w) ==
    /\ CanRaise(w)
    /\ Return(w, ErrorResponse(request[w], ExceptClause(CallError)))
    /\ UNCHANGED <<stats, started, hvars>>

\* ------------------------------------------------------------ GET /health
\* uptime = time.time() - stats["start_time"]
HealthStart ==
    /\ hpc = "idle"
    /\ started < MaxRequests
    /\ started' = started + 1
    /\ hframe' = NoFrame
    /\ hpc' = "cond"
    /\ UNCHANGED <<stats, qvars, hresponses>>

\* ... if stats["total_queries"] > 0 else 0
HealthCond ==
    /\ hpc = "cond"
    /\ hframe' = [hframe EXCEPT !.cond = stats.total_queries]
    /\ hpc' = IF HasQueries(stats.total_queries) THEN "total" ELSE "respond"
    /\ UNCHANGED <<stats, qvars, started, hresponses>>

\* stats["total_latency_ms"], the left operand of the division
HealthTotal ==
    /\ hpc = "total"
    /\ hframe' = [hframe EXCEPT !.total = stats.total_latency_ms]
    /\ hpc' = "divide"
    /\ UNCHANGED <<stats, qvars, started, hresponses>>

\* / stats["total_queries"]: the right operand is read and the division done;
\* a zero divisor raises ZeroDivisionError, which nothing in health_check
\* catches, and the framework answers 500
HealthDivide ==
    /\ hpc = "divide"
    /\ IF stats.total_queries = 0
       THEN /\ hresponses' = Append(hresponses,
                   [status |-> 500, total_queries |-> 0, avg_latency_ms |-> Zero])
            /\ hframe' = NoFrame
            /\ hpc' = "idle"
       ELSE /\ hframe' = [hframe EXCEPT !.divisor = stats.total_queries,
                                        !.avg = Quotient(hframe.total, stats.total_queries)]
            /\ hpc' = "respond"
            /\ UNCHANGED hresponses
    /\ UNCHANGED <<stats, qvars, started>>

\* return HealthResponse(..., total_queries=stats["total_queries"], avg_latency_ms=avg_latency)
HealthRespond ==
    /\ hpc = "respond"
    /\ hresponses' = Append(hresponses,
           [status |-> 200, total_queries |-> stats.total_queries,
            avg_latency_ms |-> hframe.avg])
    /\ hframe' = NoFrame
    /\ hpc' = "idle"
    /\ UNCHANGED <<stats, qvars, started>>

\* --------------------------------------------------------- specifications
\* the service under load: NumWorkers threads in query_endpoint and one in
\* health_check, their steps interleaved in any order
Next ==
    \/ \E w \in Workers : \E r \in ConcurrentRequests : Receive(w, r, MaxRequests)
    \/ \E w \in Workers : TryBody(w)
    \/ \E w \in Workers : LoadQueries(w)
    \/ \E w \in Workers : StoreQueries(w)
    \/ \E w \in Workers : LoadLatency(w)
    \/ \E w \in Workers : StoreLatency(w)
    \/ \E w \in Workers : Respond(w)
    \/ \E w \in Workers : Raise(w)
    \/ HealthStart
    \/ HealthCond
    \/ HealthTotal
    \/ HealthDivide
    \/ HealthRespond

Spec == Init /\ [][Next]_vars

\* one POST /query on one worker, its body drawn from AllRequests
NextOne ==
    \/ \E r \in AllRequests : Receive(1, r, 1)
    \/ TryBody(1)
    \/ LoadQueries(1)
    \/ StoreQueries(1)
    \/ LoadLatency(1)
    \/ StoreLatency(1)
    \/ Respond(1)
    \/ Raise(1)

SpecOne == Init /\ [][NextOne]_vars

\* ----------------------------------------------------------------- claims
\* the responses returned so far, each once
Returned == BagToSet(responses)

RECURSIVE SumOver(_, _)
SumOver(f, S) ==
    IF S = {} THEN 0
    ELSE LET x == CHOOSE y \in S : TRUE
         IN  f[x] + SumOver(f, S \ {x})

\* the number of QueryResponses returned and the sum of their latency_ms
NumSucceeded ==
    SumOver([r \in Returned |-> IF r.status = 200 THEN CopiesIn(r, responses) ELSE 0],
            Returned)

SumLatencies ==
    SumOver([r \in Returned |->
                IF r.status = 200 THEN CopiesIn(r, responses) * r.latency_ms ELSE 0],
            Returned)

\* no POST /query is in flight
Quiescent == \A w \in Workers : pc[w] = "idle"

\* the three methods the interface names
NamedMethods == {"sparse", "dense", "hybrid"}

\* C1: once N >= 1 concurrent POST /query requests have all returned a
\* QueryResponse and none is in flight, total_queries is N and
\* total_latency_ms is the sum of the latency_ms of the N responses.
NoLostUpdates ==
    (Quiescent /\ NumSucceeded >= 1 /\ \A r \in Returned : r.status = 200)
        => /\ stats.total_queries = NumSucceeded
           /\ stats.total_latency_ms = SumLatencies

\* C2: a request that fits QueryRequest but names a method other than
\* sparse, dense or hybrid is answered with status 400 and the message
\* about the method, and not with status 500.
InvalidMethodIsClientError ==
    \A r \in Returned :
        (ValidRequest(r.request) /\ r.request.method \notin NamedMethods)
            => r.status = 400 /\ r.detail = "Invalid method"

\* the worker takes a step for a request whose method is none of the three:
\* it receives the request, or it moves on in the handler with it
InvalidMethodStep(w) ==
    \/ pc[w] = "idle" /\ pc'[w] # "idle" /\ request'[w].method \notin NamedMethods
    \/ pc[w] # "idle" /\ pc'[w] # pc[w] /\ request[w].method \notin NamedMethods

\* C3: no step of a POST /query request with an invalid method changes
\* total_queries or total_latency_ms, whatever the other requests are doing
\* and whatever the statistics are when it is made.
InvalidMethodLeavesStats ==
    [][\A w \in Workers : InvalidMethodStep(w) => stats' = stats]_vars

\* C3 witness: a request with an invalid method has been answered while the
\* statistics already count a query, and another request is still in flight.
InvalidMethodAnswered ==
    /\ \E r \in Returned : ValidRequest(r.request) /\ r.request.method \notin NamedMethods
    /\ stats.total_queries > 0
    /\ \E w \in Workers : pc[w] \in {"load_queries", "store_queries"}

\* worker w has stored the incremented total_queries and has not yet stored
\* its latency into total_latency_ms
MidRecord(w) == pc[w] \in {"load_latency", "store_latency"}

\* health_check reads stats["total_queries"] in this step
HealthReadsQueries == hpc \in {"cond", "divide", "respond"} /\ hpc' # hpc

\* C4: health_check never reads a total_queries that already includes a
\* request whose latency has not yet been added to total_latency_ms.
NoPartialUpdateVisible ==
    [][HealthReadsQueries => \A w \in Workers : ~MidRecord(w)]_vars

\* C5: no step makes total_queries or total_latency_ms smaller.
CountersNeverDecrease ==
    [][/\ stats'.total_queries >= stats.total_queries
       /\ stats'.total_latency_ms >= stats.total_latency_ms]_vars

\* C6: health_check never divides by zero, so every GET /health is answered
\* with status 200; the average it is about to report is the total latency
\* it read divided by the query count it read when that count is positive,
\* and 0 when the count is 0; a response that reports no queries reports an
\* average of 0.
HealthAverage ==
    /\ \A i \in 1..Len(hresponses) :
          /\ hresponses[i].status = 200
          /\ hresponses[i].total_queries = 0 => hresponses[i].avg_latency_ms = Zero
    /\ hpc = "respond" =>
          IF hframe.cond > 0
          THEN /\ hframe.divisor > 0
               /\ hframe.avg[2] > 0
               /\ hframe.avg[1] * hframe.divisor = hframe.total * hframe.avg[2]
          ELSE hframe.avg = Zero

\* C6 witness: GET /health has reported a positive average latency.
HealthReportsAverage ==
    \E i \in 1..Len(hresponses) :
        /\ hresponses[i].status = 200
        /\ hresponses[i].total_queries > 0
        /\ hresponses[i].avg_latency_ms[1] > 0

\* C7: once the request has ended, the statistics hold exactly the requests
\* that returned a QueryResponse: a request that ended with an error, at
\* whichever step, has added nothing to total_queries or total_latency_ms.
FailedNotCounted ==
    Quiescent =>
        /\ stats.total_queries = NumSucceeded
        /\ stats.total_latency_ms = SumLatencies

\* C8: a QueryResponse holds at most top_k documents.
AtMostTopK ==
    \A r \in Returned : r.status = 200 => Len(r.documents) <= r.request.top_k

\* C8 witness: a QueryResponse for the largest top_k has been returned.
LargestTopKAnswered ==
    \E r \in Returned :
        r.status = 200 /\ r.request.top_k = TopKMax /\ Len(r.documents) = TopKMax

\* C9: in a QueryResponse the document at position i has rank i, and the
\* scores do not increase with the rank.
WellFormedRanking ==
    \A r \in Returned : r.status = 200 =>
        /\ \A i \in 1..Len(r.documents) : r.documents[i].rank = i
        /\ \A i \in 1..Len(r.documents) : \A j \in i..Len(r.documents) :
              r.documents[i].score >= r.documents[j].score

\* C9 witness: a QueryResponse with several documents, whose scores go from
\* positive to negative, has been returned.
LongRankingAnswered ==
    \E r \in Returned :
        /\ r.status = 200
        /\ Len(r.documents) > 10
        /\ r.documents[1].score > 0
        /\ r.documents[Len(r.documents)].score < 0

\* the query without its leading and trailing blanks
RECURSIVE Trim(_)
Trim(q) ==
    IF q = <<>> THEN q
    ELSE IF Head(q) = " " THEN Trim(Tail(q))
    ELSE IF q[Len(q)] = " " THEN Trim(SubSeq(q, 1, Len(q) - 1))
    ELSE q

\* C10: a query that is empty once its blanks are trimmed gets no
\* QueryResponse and adds nothing to total_queries or total_latency_ms.
BlankQueryRejected ==
    /\ \A r \in Returned : Trim(r.request.query) = <<>> => r.status # 200
    /\ (Quiescent /\ \A r \in Returned : Trim(r.request.query) = <<>>)
          => stats.total_queries = 0 /\ stats.total_latency_ms = 0

====
